---- MODULE Spec2Model ----
(***************************************************************************)
(* lines-are-rusty: the geometry / colour core (src/render/renderlib.rs)   *)
(* and the command line front end (src/main.rs).                           *)
(*                                                                         *)
(* Numbers.  f32 values are modelled as fixed-point integers: the integer  *)
(* X stands for the real X / Unit.  Inputs are restricted to those on      *)
(* which every product, quotient and square root the code takes is exact,  *)
(* so the fixed-point result is the real result.  NaN is not modelled.     *)
(* +infinity is a value above every finite value the model can produce.    *)
(***************************************************************************)
EXTENDS Integers, Sequences, FiniteSets, TLC

VARIABLES
    \* ---- one Line through the geometry builder and the box accumulator
    line,          \* the Line: [points : Seq(Point)]
    quads,         \* result of segment_quads(line), or None before the call
    start_box,     \* the BoundingBox handed to enclose_line
    box,           \* result of start_box.enclose_line(line), or None
    build,         \* "debug" (overflow checks on) or "release" (wrapping)
    zero_policy,   \* what Line::offsets substitutes on a zero-length segment
    \* ---- a Page through enclose_page
    page,          \* [layers : Seq([lines : Seq(Line)])]
    page_box,      \* result of BoundingBox::new().enclose_page(page), or None
    \* ---- one call of line_to_css_color
    brush_type, color, layer_idx, layer_colors,
    css,           \* [value |-> the string line_to_css_color returned], or None
    \* ---- main()
    pc,             \* where main() stands
    args,           \* the parsed command line (clap's matches)
    output_type,    \* <<>> or <<"Svg">>, <<"Pdf">>
    palette,        \* <<>> or <<layer_colors>> once the --colors value is parsed
    exit_code,      \* <<>> while running, else <<status>>
    stderr,         \* the messages written so far
    output_created, \* File::create was called on the --output file
    input_read,     \* LinesData::parse was called on the input
    rendered        \* a renderer wrote the output

lineVars  == <<line, quads, start_box, box, build, zero_policy>>
pageVars  == <<page, page_box>>
colorVars == <<brush_type, color, layer_idx, layer_colors, css>>
mainVars  == <<pc, args, output_type, palette, exit_code, stderr,
               output_created, input_read, rendered>>
vars      == <<lineVars, pageVars, colorVars, mainVars>>

None == [none |-> TRUE]

(***************************************************************************)
(* Bounds of the model.                                                    *)
(***************************************************************************)
MaxPoints     == 3    \* points of the Line in SpecLine
MaxCoord      == 8    \* |x|, |y| of a point, in whole units
MaxPagePoints == 3    \* points of the whole Page in SpecPage
MaxLines      == 3    \* lines of the whole Page
MaxLayers     == 2    \* layers of the Page
MaxPalette    == 2    \* layers of the palette given to line_to_css_color
MaxLayerIdx   == 3    \* layer index given to line_to_css_color

(***************************************************************************)
(* f32 as fixed point.                                                     *)
(***************************************************************************)
Unit == 120
INFINITY == 100000000
NEG_INFINITY == -INFINITY

FMul(a, b) == (a * b) \div Unit
FDiv(a, b) == (a * Unit) \div b
Half == Unit \div 2      \* the literal 0.5

FMin(a, b) == IF a <= b THEN a ELSE b     \* f32::min
FMax(a, b) == IF a >= b THEN a ELSE b     \* f32::max

RECURSIVE SqrtSearch(_, _, _)
SqrtSearch(n, lo, hi) ==
    IF lo >= hi THEN lo
    ELSE LET mid == (lo + hi + 1) \div 2
         IN  IF mid * mid <= n THEN SqrtSearch(n, mid, hi)
                               ELSE SqrtSearch(n, lo, mid - 1)
\* f32::sqrt of the fixed-point value a: sqrt(a / Unit) * Unit
FSqrt(a) == SqrtSearch(a * Unit, 0, FMax(a, Unit))

Point(x, y, w) == [x |-> x * Unit, y |-> y * Unit, width |-> w * Unit]

(***************************************************************************)
(* BoundingBox                                                             *)
(***************************************************************************)
BoundingBox_new ==
    [min_x |-> INFINITY, min_y |-> INFINITY,
     max_x |-> NEG_INFINITY, max_y |-> NEG_INFINITY]

enclose_point_overwrite(self, point) ==
    LET radius == FMul(Half, point.width)
    IN  [min_x |-> point.x - radius, min_y |-> point.y - radius,
         max_x |-> point.x + radius, max_y |-> point.y + radius]

enclose_point_bare(self, point) ==
    [min_x |-> FMin(self.min_x, point.x), min_y |-> FMin(self.min_y, point.y),
     max_x |-> FMax(self.max_x, point.x), max_y |-> FMax(self.max_y, point.y)]

enclose_point(self, point) ==
    LET radius == FMul(Half, point.width)
    IN  [min_x |-> FMin(self.min_x, point.x - radius),
         min_y |-> FMin(self.min_y, point.y - radius),
         max_x |-> FMax(self.max_x, point.x + radius),
         max_y |-> FMax(self.max_y, point.y + radius)]

RECURSIVE enclose_points_from(_, _, _)
enclose_points_from(self, points, i) ==
    IF i > Len(points) THEN self
    ELSE enclose_points_from(enclose_point(self, points[i]), points, i + 1)

enclose_line(self, l) == enclose_points_from(self, l.points, 1)

RECURSIVE enclose_lines_from(_, _, _)
enclose_lines_from(self, lines, i) ==
    IF i > Len(lines) THEN self
    ELSE enclose_lines_from(enclose_line(self, lines[i]), lines, i + 1)

RECURSIVE enclose_layers_from(_, _, _)
enclose_layers_from(self, layers, i) ==
    IF i > Len(layers) THEN self
    ELSE enclose_layers_from(enclose_lines_from(self, layers[i].lines, 1), layers, i + 1)

RECURSIVE enclose_first_lines_from(_, _, _)
enclose_first_lines_from(self, layers, i) ==
    IF i > Len(layers) THEN self
    ELSE enclose_first_lines_from(
             IF Len(layers[i].lines) = 0 THEN self
             ELSE enclose_line(self, layers[i].lines[1]),
             layers, i + 1)

enclose_page_first_lines(self, p) == enclose_first_lines_from(self, p.layers, 1)

enclose_page(self, p) == enclose_layers_from(self, p.layers, 1)

(***************************************************************************)
(* Line::offsets (lib.rs, not among the sources): one displacement per     *)
(* consecutive point pair: the direction normalised, rotated 90 degrees    *)
(* counter-clockwise and scaled to `distance`.  On a zero-length segment   *)
(* the implementation substitutes a fallback: the zero vector, or the      *)
(* previous segment's offset (the zero vector when there is none).         *)
(***************************************************************************)
ZeroPolicies == {"zero", "previous"}

RECURSIVE offsets_upto(_, _, _, _)
offsets_upto(points, distance, policy, n) ==
    IF n <= 0 THEN <<>>
    ELSE LET prev == offsets_upto(points, distance, policy, n - 1)
             dx   == points[n + 1].x - points[n].x
             dy   == points[n + 1].y - points[n].y
             len  == FSqrt(FMul(dx, dx) + FMul(dy, dy))
             o    == IF len = 0
                     THEN IF policy = "previous" /\ n > 1
                          THEN prev[n - 1]
                          ELSE [x |-> 0, y |-> 0]
                     ELSE [x |-> FMul(0 - FDiv(dy, len), distance),
                           y |-> FMul(FDiv(dx, len), distance)]
         IN  Append(prev, o)

offsets(l, distance) ==
    offsets_upto(l.points, distance, zero_policy, Len(l.points) - 1)

(***************************************************************************)
(* segment_quads                                                           *)
(***************************************************************************)
UsizeBits == 16          \* width of usize in the model
ElemBytes == 4           \* size_of::<f32>()
UsizeModulus == 2 ^ UsizeBits
IsizeMax == 2 ^ (UsizeBits - 1) - 1

Panic(msg) == [panic |-> TRUE, msg |-> msg, coords |-> <<>>]
Returned(coords) == [panic |-> FALSE, msg |-> "", coords |-> coords]

quad_clockwise(p1, p2, offset) ==
    << p1.x - offset.x, p1.y - offset.y,
       p2.x - offset.x, p2.y - offset.y,
       p2.x + offset.x, p2.y + offset.y,
       p1.x + offset.x, p1.y + offset.y >>

quad(p1, p2, offset) ==
    << p1.x + offset.x, p1.y + offset.y,
       p2.x + offset.x, p2.y + offset.y,
       p2.x - offset.x, p2.y - offset.y,
       p1.x - offset.x, p1.y - offset.y >>

RECURSIVE fold_quads_skip_degenerate(_, _, _, _)
fold_quads_skip_degenerate(points, offs, i, coords) ==
    IF i > Len(offs) THEN Returned(coords)
    ELSE IF i + 1 > Len(points) THEN Panic("index out of bounds")
    ELSE IF points[i].x = points[i + 1].x /\ points[i].y = points[i + 1].y
    THEN fold_quads_skip_degenerate(points, offs, i + 1, coords)
    ELSE fold_quads_skip_degenerate(points, offs, i + 1,
                                    coords \o quad(points[i], points[i + 1], offs[i]))

RECURSIVE fold_quads(_, _, _, _)
fold_quads(points, offs, i, coords) ==
    IF i > Len(offs) THEN Returned(coords)
    ELSE IF i + 1 > Len(points) THEN Panic("index out of bounds")
    ELSE fold_quads(points, offs, i + 1, coords \o quad(points[i], points[i + 1], offs[i]))

segment_quads(l) ==
    LET points == l.points
        offset_distance == IF Len(points) = 0 THEN 0 ELSE FMul(points[1].width, Half)
        offs == offsets(l, offset_distance)
        n1 == (Len(points) - 1) % UsizeModulus
        capacity == (8 * n1) % UsizeModulus
    IN  IF build = "debug" /\ Len(points) - 1 < 0
        THEN Panic("attempt to subtract with overflow")
        ELSE IF build = "debug" /\ 8 * n1 >= UsizeModulus
        THEN Panic("attempt to multiply with overflow")
        ELSE IF capacity * ElemBytes > IsizeMax
        THEN Panic("capacity overflow")
        ELSE fold_quads(points, offs, 1, <<>>)

(***************************************************************************)
(* SpecLine: the parser hands over a Line point by point; the renderer     *)
(* calls segment_quads on it and folds it into a bounding box.             *)
(***************************************************************************)
Dirs == { <<3, 4>>, <<3, 0>>, <<0, 0>>, <<0, -2>>, <<-4, 3>> }
Widths == {2, 10}
FirstPoints == { <<0, 0>>, <<1, -1>> }
StartBoxes ==
    { BoundingBox_new,
      enclose_point(BoundingBox_new, Point(0, 0, 2)),
      enclose_point(BoundingBox_new, Point(5, 5, 4)) }

InRange(c) == -MaxCoord <= c /\ c <= MaxCoord

InitLine ==
    /\ line = [points |-> <<>>]
    /\ quads = None
    /\ box = None
    /\ start_box \in StartBoxes
    /\ build \in {"debug", "release"}
    /\ zero_policy \in ZeroPolicies
    /\ page = [layers |-> <<>>] /\ page_box = None
    /\ brush_type = "Fineliner" /\ color = "Black" /\ layer_idx = 0
    /\ layer_colors = <<>> /\ css = None
    /\ pc = "idle" /\ args = None /\ output_type = <<>>
    /\ palette = <<>> /\ exit_code = <<>> /\ stderr = <<>>
    /\ output_created = FALSE /\ input_read = FALSE /\ rendered = FALSE

\* the parser appends the first point of the line
AddFirstPoint ==
    /\ pc = "idle"
    /\ Len(line.points) = 0
    /\ \E xy \in FirstPoints, w \in Widths :
          line' = [points |-> << Point(xy[1], xy[2], w) >>]
    /\ quads' = None /\ box' = None
    /\ UNCHANGED <<start_box, build, zero_policy, pageVars, colorVars, mainVars>>

\* the parser appends a further point, one step of Dirs away from the last
AddPoint ==
    /\ pc = "idle"
    /\ Len(line.points) > 0 /\ Len(line.points) < MaxPoints
    /\ \E d \in Dirs, w \in Widths :
          LET last == line.points[Len(line.points)]
              nx == last.x \div Unit + d[1]
              ny == last.y \div Unit + d[2]
          IN  /\ InRange(nx) /\ InRange(ny)
              /\ line' = [points |-> Append(line.points, Point(nx, ny, w))]
    /\ quads' = None /\ box' = None
    /\ UNCHANGED <<start_box, build, zero_policy, pageVars, colorVars, mainVars>>

CallSegmentQuads ==
    /\ pc = "idle"
    /\ quads = None
    /\ quads' = segment_quads(line)
    /\ UNCHANGED <<line, start_box, box, build, zero_policy, pageVars, colorVars, mainVars>>

CallEncloseLine ==
    /\ pc = "idle"
    /\ box = None
    /\ box' = enclose_line(start_box, line)
    /\ UNCHANGED <<line, start_box, quads, build, zero_policy, pageVars, colorVars, mainVars>>

NextLine == AddFirstPoint \/ AddPoint \/ CallSegmentQuads \/ CallEncloseLine

SpecLine == InitLine /\ [][NextLine]_vars

(***************************************************************************)
(* Claims checked under SpecLine                                           *)
(***************************************************************************)
Slice8(coords, i) == [k \in 1..8 |-> coords[8 * (i - 1) + k]]

TestLine == [points |-> << Point(0, 0, 10), Point(3, 4, 10), Point(6, 4, 10) >>]
TestQuads ==
    << -4 * Unit, 3 * Unit, -1 * Unit, 7 * Unit, 7 * Unit, 1 * Unit, 4 * Unit, -3 * Unit,
       3 * Unit, 9 * Unit, 6 * Unit, 9 * Unit, 6 * Unit, -1 * Unit, 3 * Unit, -1 * Unit >>

QuadsReturned == quads # None /\ ~quads.panic

\* C1: for a line of N >= 2 points, values 8i..8i+7 of segment_quads(line) are
\* p[i]+o, p[i+1]+o, p[i+1]-o, p[i]-o (x then y), where, on a segment of
\* non-zero length, o is perpendicular to the direction d = p[i+1]-p[i], turned
\* counter-clockwise from it ((dx,dy) -> (-dy,dx)), of length half the width of
\* the line's first point; the width-10 line through (0,0), (3,4), (6,4) gives
\* [-4,3, -1,7, 7,1, 4,-3, 3,9, 6,9, 6,-1, 3,-1].
C1_QuadLayout ==
    (QuadsReturned /\ Len(line.points) >= 2) =>
        /\ \A i \in 1..(Len(line.points) - 1) :
              /\ Len(quads.coords) >= 8 * i
              /\ LET p    == line.points[i]
                     q    == line.points[i + 1]
                     c    == Slice8(quads.coords, i)
                     ox   == c[1] - p.x
                     oy   == c[2] - p.y
                     dx   == q.x - p.x
                     dy   == q.y - p.y
                     half == line.points[1].width \div 2
                 IN  /\ c = << p.x + ox, p.y + oy, q.x + ox, q.y + oy,
                               q.x - ox, q.y - oy, p.x - ox, p.y - oy >>
                     /\ (dx # 0 \/ dy # 0) =>
                           /\ ox * dx + oy * dy = 0
                           /\ ox * ox + oy * oy = half * half
                           /\ (0 - dy) * ox + dx * oy >= 0
                           /\ (half > 0 => (0 - dy) * ox + dx * oy > 0)
        /\ (line = TestLine => quads.coords = TestQuads)

C1_Witness ==
    /\ QuadsReturned
    /\ line = TestLine
    /\ quads.coords = TestQuads

\* C2: segment_quads on a line with no points, or with exactly one point,
\* returns the empty sequence and does not panic.
C2_EmptyOrSinglePointYieldsEmpty ==
    (quads # None /\ Len(line.points) <= 1) =>
        (~quads.panic /\ quads.coords = <<>>)

\* C3: for a line of N >= 2 points, duplicate consecutive points included,
\* segment_quads returns exactly 8*(N-1) values.
C3_QuadCount ==
    (quads # None /\ Len(line.points) >= 2) =>
        /\ ~quads.panic
        /\ Len(quads.coords) = 8 * (Len(line.points) - 1)

C3_Witness ==
    /\ QuadsReturned
    /\ Len(line.points) = 3
    /\ line.points[2].x = line.points[3].x /\ line.points[2].y = line.points[3].y
    /\ Len(quads.coords) = 16

Permuted(points, f) == [k \in 1..Len(points) |-> points[f[k]]]

\* C7: the result of enclose_line does not depend on the order of the line's
\* points, whatever the starting box, and enclosing a point of the line a second
\* time changes nothing.
C7_EncloseLineOrderIndependent ==
    box # None =>
        /\ \A f \in Permutations(1..Len(line.points)) :
              enclose_line(start_box, [points |-> Permuted(line.points, f)]) = box
        /\ \A k \in 1..Len(line.points) :
              enclose_point(box, line.points[k]) = box

C7_Witness ==
    /\ box # None
    /\ Len(line.points) = 3
    /\ start_box # BoundingBox_new
    /\ box # start_box
    /\ \A i, j \in 1..3 : i # j => line.points[i] # line.points[j]
    /\ \E f \in Permutations(1..3) :
          enclose_point(start_box, Permuted(line.points, f)[1])
             # enclose_point(start_box, line.points[1])

Inside(b, x, y) ==
    b.min_x <= x /\ x <= b.max_x /\ b.min_y <= y /\ y <= b.max_y

CornersInside(b, coords) ==
    \A k \in 1..(Len(coords) \div 2) : Inside(b, coords[2 * k - 1], coords[2 * k])

QuadsAndBoxOfLine ==
    /\ QuadsReturned /\ box # None /\ start_box = BoundingBox_new
    /\ Len(line.points) >= 2

NoPointNarrowerThanFirst ==
    \A k \in 1..Len(line.points) : line.points[k].width >= line.points[1].width

PagePoints == { Point(0, 0, 2), Point(3, 4, 10), Point(-4, 3, 2), Point(6, 4, 1) }

LinesOf(p) ==
    UNION { { <<i, j>> : j \in 1..Len(p.layers[i].lines) } : i \in 1..Len(p.layers) }
PointsOf(p) ==
    UNION { { <<ij[1], ij[2], k>> : k \in 1..Len(p.layers[ij[1]].lines[ij[2]].points) }
            : ij \in LinesOf(p) }
PointAt(p, ijk) == p.layers[ijk[1]].lines[ijk[2]].points[ijk[3]]

InitPage ==
    /\ page = [layers |-> <<>>]
    /\ page_box = None
    /\ line = [points |-> <<>>] /\ quads = None /\ box = None
    /\ start_box = BoundingBox_new /\ build = "release" /\ zero_policy = "zero"
    /\ brush_type = "Fineliner" /\ color = "Black" /\ layer_idx = 0
    /\ layer_colors = <<>> /\ css = None
    /\ pc = "page" /\ args = None /\ output_type = <<>>
    /\ palette = <<>> /\ exit_code = <<>> /\ stderr = <<>>
    /\ output_created = FALSE /\ input_read = FALSE /\ rendered = FALSE

PageAddLayer ==
    /\ pc = "page"
    /\ Len(page.layers) < MaxLayers
    /\ page' = [layers |-> Append(page.layers, [lines |-> <<>>])]
    /\ page_box' = None
    /\ UNCHANGED <<lineVars, colorVars, mainVars>>

PageAddLine ==
    /\ pc = "page"
    /\ Len(page.layers) > 0
    /\ Cardinality(LinesOf(page)) < MaxLines
    /\ LET n == Len(page.layers)
       IN  page' = [layers |-> [page.layers EXCEPT ![n] =
                       [lines |-> Append(@.lines, [points |-> <<>>])]]]
    /\ page_box' = None
    /\ UNCHANGED <<lineVars, colorVars, mainVars>>

PageAddPoint ==
    /\ pc = "page"
    /\ Len(page.layers) > 0
    /\ Len(page.layers[Len(page.layers)].lines) > 0
    /\ Cardinality(PointsOf(page)) < MaxPagePoints
    /\ \E pt \in PagePoints :
          LET n == Len(page.layers)
              m == Len(page.layers[n].lines)
          IN  page' = [layers |-> [page.layers EXCEPT ![n] =
                          [lines |-> [@.lines EXCEPT ![m] =
                              [points |-> Append(@.points, pt)]]]]]
    /\ page_box' = None
    /\ UNCHANGED <<lineVars, colorVars, mainVars>>

CallEnclosePage ==
    /\ pc = "page"
    /\ page_box = None
    /\ page_box' = enclose_page(BoundingBox_new, page)
    /\ UNCHANGED <<page, lineVars, colorVars, mainVars>>

NextPage == PageAddLayer \/ PageAddLine \/ PageAddPoint \/ CallEnclosePage

SpecPage == InitPage /\ [][NextPage]_vars

(***************************************************************************)
(* Claims checked under SpecPage                                           *)
(***************************************************************************)
SetMin(S) == CHOOSE m \in S : \A v \in S : m <= v
SetMax(S) == CHOOSE m \in S : \A v \in S : m >= v

\* C6: starting from the empty box (+inf, +inf, -inf, -inf), enclose_page
\* returns that box unchanged when the page has no points, and otherwise
\* min = the componentwise minimum of P.xy - P.width/2 and max = the
\* componentwise maximum of P.xy + P.width/2 over all points P of the page;
\* for a single point of width W the box is W by W, centred at the point.
C6_EnclosePage ==
    page_box # None =>
        LET P == { PointAt(page, ijk) : ijk \in PointsOf(page) }
        IN  /\ P = {} =>
                 page_box = [min_x |-> INFINITY, min_y |-> INFINITY,
                             max_x |-> NEG_INFINITY, max_y |-> NEG_INFINITY]
            /\ P # {} =>
                 /\ page_box.min_x = SetMin({ pt.x - pt.width \div 2 : pt \in P })
                 /\ page_box.min_y = SetMin({ pt.y - pt.width \div 2 : pt \in P })
                 /\ page_box.max_x = SetMax({ pt.x + pt.width \div 2 : pt \in P })
                 /\ page_box.max_y = SetMax({ pt.y + pt.width \div 2 : pt \in P })
            /\ Cardinality(PointsOf(page)) = 1 =>
                 \A pt \in P :
                     /\ page_box.max_x - page_box.min_x = pt.width
                     /\ page_box.max_y - page_box.min_y = pt.width
                     /\ page_box.max_x + page_box.min_x = 2 * pt.x
                     /\ page_box.max_y + page_box.min_y = 2 * pt.y

C6_Witness ==
    /\ page_box # None
    /\ Len(page.layers) = 2
    /\ Len(page.layers[1].lines) = 2 /\ Len(page.layers[2].lines) = 1
    /\ Len(page.layers[1].lines[1].points) = 1
    /\ Len(page.layers[1].lines[2].points) = 1
    /\ Len(page.layers[2].lines[1].points) = 1
    /\ page_box.min_x = PointAt(page, <<1, 2, 1>>).x - PointAt(page, <<1, 2, 1>>).width \div 2
    /\ page_box.max_y = PointAt(page, <<2, 1, 1>>).y + PointAt(page, <<2, 1, 1>>).width \div 2
    /\ page_box.min_x < PointAt(page, <<1, 1, 1>>).x - PointAt(page, <<1, 1, 1>>).width \div 2

(***************************************************************************)
(* line_to_css_color                                                       *)
(***************************************************************************)
Colors == {"Black", "Grey", "White", "Blue", "Red", "Yellow", "Green", "Pink",
           "GrayOverlapping"}
BrushTypes == {"Highlighter", "Fineliner", "Eraser"}

\* LayerColor::default(): every String field at its type's default
LayerColor_default ==
    [black |-> "", grey |-> "", white |-> "", blue |-> "", red |-> "",
     yellow |-> "", green |-> "", pink |-> "", gray_overlapping |-> ""]

\* layer_colors.get(layer_idx).cloned().unwrap_or_default(), the slice 0-indexed
get_or_default(layer_cols, idx) ==
    IF idx < Len(layer_cols) THEN layer_cols[idx + 1] ELSE LayerColor_default

match_color(c, lc) ==
    CASE c = "Black"  -> lc.black
      [] c = "Grey"   -> lc.grey
      [] c = "White"  -> lc.white
      [] c = "Blue"   -> lc.blue
      [] c = "Red"    -> lc.red
      [] c = "Yellow" -> lc.yellow
      [] c = "Green"  -> lc.green
      [] c = "Pink"   -> lc.pink
      [] c = "GrayOverlapping" -> lc.gray_overlapping

\* the fallback the comment at line 48 describes: the last layer with colours
line_to_css_color_last_layer(l, idx, layer_cols) ==
    LET lc == IF idx < Len(layer_cols) THEN layer_cols[idx + 1]
              ELSE IF Len(layer_cols) > 0 THEN layer_cols[Len(layer_cols)]
              ELSE LayerColor_default
    IN  IF l.brush_type = "Highlighter" THEN "rgb(240, 220, 40)"
        ELSE match_color(l.color, lc)

\* the highlight colour only for lines that carry the Yellow colour
line_to_css_color_yellow_highlighter(l, idx, layer_cols) ==
    LET lc == get_or_default(layer_cols, idx)
    IN  IF l.brush_type = "Highlighter" /\ l.color = "Yellow" THEN "rgb(240, 220, 40)"
        ELSE match_color(l.color, lc)

line_to_css_color(l, idx, layer_cols) ==
    LET lc == get_or_default(layer_cols, idx)
    IN  IF l.brush_type = "Highlighter" THEN "rgb(240, 220, 40)"
        ELSE match_color(l.color, lc)

(***************************************************************************)
(* SpecColor: a render pass resolves the colour of one line after another  *)
(* against the palette the caller supplied once.                           *)
(***************************************************************************)
Layer1Colors ==
    [black |-> "black", grey |-> "grey", white |-> "white", blue |-> "blue",
     red |-> "red", yellow |-> "yellow", green |-> "green", pink |-> "pink",
     gray_overlapping |-> "gray"]
Layer2Colors ==
    [black |-> "#111", grey |-> "#888", white |-> "#eee", blue |-> "#00f",
     red |-> "#f00", yellow |-> "#ff0", green |-> "#0f0", pink |-> "#f0f",
     gray_overlapping |-> "#777"]
PaletteEntries == {Layer1Colors, Layer2Colors}
Palettes == UNION { [1..n -> PaletteEntries] : n \in 0..MaxPalette }

InitColor ==
    /\ layer_colors \in Palettes
    /\ brush_type = "Fineliner" /\ color = "Black" /\ layer_idx = 0
    /\ css = None
    /\ line = [points |-> <<>>] /\ quads = None /\ box = None
    /\ start_box = BoundingBox_new /\ build = "release" /\ zero_policy = "zero"
    /\ page = [layers |-> <<>>] /\ page_box = None
    /\ pc = "color" /\ args = None /\ output_type = <<>>
    /\ palette = <<>> /\ exit_code = <<>> /\ stderr = <<>>
    /\ output_created = FALSE /\ input_read = FALSE /\ rendered = FALSE

\* the renderer moves on to another line of some layer
NextLineOfLayer ==
    /\ pc = "color"
    /\ brush_type' \in BrushTypes
    /\ color' \in Colors
    /\ layer_idx' \in 0..MaxLayerIdx
    /\ css' = None
    /\ UNCHANGED <<layer_colors, lineVars, pageVars, mainVars>>

CallLineToCssColor ==
    /\ pc = "color"
    /\ css = None
    /\ css' = [value |-> line_to_css_color([brush_type |-> brush_type, color |-> color],
                                            layer_idx, layer_colors)]
    /\ UNCHANGED <<brush_type, color, layer_idx, layer_colors, lineVars, pageVars, mainVars>>

NextColor == NextLineOfLayer \/ CallLineToCssColor

SpecColor == InitColor /\ [][NextColor]_vars

(***************************************************************************)
(* Claims checked under SpecColor                                          *)
(***************************************************************************)
\* C4: for every Highlighter line, line_to_css_color returns
\* "rgb(240, 220, 40)", whatever the semantic colour, the layer index (in or
\* out of range) and the palette.
C4_HighlighterFixedColor ==
    (css # None /\ brush_type = "Highlighter") => css.value = "rgb(240, 220, 40)"

C4_Witness ==
    /\ css = [value |-> "rgb(240, 220, 40)"]
    /\ brush_type = "Highlighter"
    /\ color = "Blue"
    /\ layer_idx < Len(layer_colors)

\* the LayerColor field that belongs to each semantic colour
FieldOfColor ==
    [c \in Colors |->
        CASE c = "Black" -> "black" [] c = "Grey" -> "grey" [] c = "White" -> "white"
          [] c = "Blue" -> "blue" [] c = "Red" -> "red" [] c = "Yellow" -> "yellow"
          [] c = "Green" -> "green" [] c = "Pink" -> "pink"
          [] c = "GrayOverlapping" -> "gray_overlapping"]

Some(v) == <<v>>
NoneOpt == <<>>

\* str::to_lowercase on the characters the model uses
LowerChar(c) ==
    CASE c = "S" -> "s" [] c = "V" -> "v" [] c = "G" -> "g"
      [] c = "P" -> "p" [] c = "D" -> "d" [] c = "F" -> "f"
      [] OTHER -> c
to_lowercase(str) == [k \in 1..Len(str) |-> LowerChar(str[k])]

LastIndexOf(str, ch) ==
    IF \E k \in 1..Len(str) : str[k] = ch
    THEN CHOOSE k \in 1..Len(str) : str[k] = ch /\ \A j \in (k + 1)..Len(str) : str[j] # ch
    ELSE 0

RECURSIVE StripTrailing(_, _)
StripTrailing(str, ch) ==
    IF Len(str) > 1 /\ str[Len(str)] = ch THEN StripTrailing(SubSeq(str, 1, Len(str) - 1), ch)
    ELSE str

\* Path::file_name: the last component, none for "", "/" and a path ending in ".."
file_name(path) ==
    LET q    == StripTrailing(path, "/")
        last == SubSeq(q, LastIndexOf(q, "/") + 1, Len(q))
    IN  IF last = <<>> \/ last = <<".", ".">> THEN NoneOpt ELSE Some(last)

\* Path::extension: what follows the last '.' of the file name; none when the
\* name has no '.' or only a leading one
extension(path) ==
    LET f == file_name(path)
    IN  IF f = NoneOpt THEN NoneOpt
        ELSE LET name == f[1]
                 dot  == LastIndexOf(name, ".")
             IN  IF dot <= 1 THEN NoneOpt
                 ELSE Some(SubSeq(name, dot + 1, Len(name)))

\* the extension taken even when --to is given
output_type_string_extension_first(a) ==
    IF a.output # NoneOpt /\ extension(a.output[1]) # NoneOpt
    THEN extension(a.output[1])
    ELSE a.to

\* lines 69-73: --to, or else the extension of the --output file
output_type_string(a) ==
    IF a.to # NoneOpt THEN a.to
    ELSE IF a.output = NoneOpt THEN NoneOpt
    ELSE extension(a.output[1])

\* lines 74-84: the OutputType, or none where the code exits
match_output_type(ots) ==
    IF ots = NoneOpt THEN Some("Svg")
    ELSE IF to_lowercase(ots[1]) = <<"s", "v", "g">> THEN Some("Svg")
    ELSE IF to_lowercase(ots[1]) = <<"p", "d", "f">> THEN Some("Pdf")
    ELSE NoneOpt

\* str::split: the pieces between the separators; one empty piece for ""
RECURSIVE SplitFrom(_, _, _, _, _)
SplitFrom(str, sep, i, cur, acc) ==
    IF i > Len(str) THEN Append(acc, cur)
    ELSE IF str[i] = sep THEN SplitFrom(str, sep, i + 1, <<>>, Append(acc, cur))
    ELSE SplitFrom(str, sep, i + 1, Append(cur, str[i]), acc)
split(str, sep) == SplitFrom(str, sep, 1, <<>>, <<>>)

NumColors == 9

\* lines 89-113: the layers of the --colors value, in order; none at the first
\* layer that does not have 9 colours, where the code exits
parse_layer(layer) ==
    LET c == split(layer, ",")
    IN  IF Len(c) # NumColors THEN NoneOpt
        ELSE Some([black |-> c[1], grey |-> c[2], white |-> c[3], blue |-> c[4],
                   red |-> c[5], yellow |-> c[6], green |-> c[7], pink |-> c[8],
                   gray_overlapping |-> c[9]])

parse_colors(colors) ==
    LET layers == split(colors, ";")
    IN  IF \E k \in 1..Len(layers) : parse_layer(layers[k]) = NoneOpt
        THEN NoneOpt
        ELSE Some([k \in 1..Len(layers) |-> parse_layer(layers[k])[1]])

\* str::parse::<f32> on strings of digits, '.' and letters
Digits == {"0", "1", "2", "3", "4", "5", "6", "7", "8", "9"}
parse_f32_ok(str) ==
    /\ \A k \in 1..Len(str) : str[k] \in Digits \cup {"."}
    /\ \E k \in 1..Len(str) : str[k] \in Digits
    /\ Cardinality({ k \in 1..Len(str) : str[k] = "." }) <= 1

(***************************************************************************)
(* SpecMain: one run of main(), from the parsed command line to exit.      *)
(***************************************************************************)
ToValues == { NoneOpt, Some(<<"s", "v", "g">>), Some(<<"p", "d", "f">>) }
OutputValues ==
    { NoneOpt,
      Some(<<"o", ".", "s", "v", "g">>),
      Some(<<"o", ".", "S", "V", "G">>),
      Some(<<"o", ".", "p", "d", "f">>),
      Some(<<"o", ".", "P", "d", "f">>),
      Some(<<"o">>),
      Some(<<"o", ".", "t", "x", "t">>),
      Some(<<".", "s", "v", "g">>),
      Some(<<"o", ".">>),
      Some(<<"a", ".", "p", "d", "f", "/", "o">>),
      Some(<<"o", ".", "p", "d", "f", ".", "s", "v", "g">>) }

NineColors ==
    <<"a", ",", "b", ",", "c", ",", "d", ",", "e", ",", "f", ",", "g", ",", "h", ",", "i">>
ColorsValues ==
    { <<>>,                                   \* the default value ""
      NineColors,
      NineColors \o <<";">> \o NineColors,
      NineColors \o <<";">>,
      <<"a", ",", "b", ",", "c">>,
      <<",", ",", ",", ",", ",", ",", ",", ",">> }
DistanceValues == { <<"2", ".", "0">>, <<"x">> }
FileValues == { NoneOpt, Some(<<"i", ".", "r", "m">>) }

ExitStatusFailure == 1      \* exit(1), and main returning Err
ExitStatusPanic   == 101    \* a panic unwinding out of main
ExitStatusSuccess == 0

MsgUnsupported == "Unsupported output file extension"
MsgNineColors  == "Expected 9 colors per layer"
MsgDistance    == "Distance threshold not a valid f32"
MsgDebugDump   == "Warning: debug-dump only has an effect when writing SVG output"

InitMain ==
    /\ pc = "start"
    /\ args \in [to : ToValues, output : OutputValues, colors : ColorsValues,
                 file : FileValues, distance_threshold : DistanceValues,
                 auto_crop : BOOLEAN, debug_dump : BOOLEAN]
    /\ output_type = NoneOpt /\ palette = NoneOpt /\ exit_code = NoneOpt
    /\ stderr = <<>>
    /\ output_created = FALSE /\ input_read = FALSE /\ rendered = FALSE
    /\ line = [points |-> <<>>] /\ quads = None /\ box = None
    /\ start_box = BoundingBox_new /\ build = "release" /\ zero_policy = "zero"
    /\ page = [layers |-> <<>>] /\ page_box = None
    /\ brush_type = "Fineliner" /\ color = "Black" /\ layer_idx = 0
    /\ layer_colors = <<>> /\ css = None

Exit(status, msg) ==
    /\ pc' = "exit"
    /\ exit_code' = Some(status)
    /\ stderr' = Append(stderr, msg)

\* lines 68-84
DetermineOutputType ==
    /\ pc = "start"
    /\ LET t == match_output_type(output_type_string(args))
       IN  IF t = NoneOpt
           THEN Exit(ExitStatusFailure, MsgUnsupported) /\ UNCHANGED output_type
           ELSE /\ output_type' = t
                /\ pc' = "colors"
                /\ UNCHANGED <<exit_code, stderr>>
    /\ UNCHANGED <<args, palette, output_created, input_read, rendered,
                   lineVars, pageVars, colorVars>>

\* lines 86-113
ParseColors ==
    /\ pc = "colors"
    /\ LET r == parse_colors(args.colors)
       IN  IF r = NoneOpt
           THEN Exit(ExitStatusFailure, MsgNineColors) /\ UNCHANGED palette
           ELSE /\ palette' = r
                /\ pc' = "options"
                /\ UNCHANGED <<exit_code, stderr>>
    /\ UNCHANGED <<args, output_type, output_created, input_read, rendered,
                   lineVars, pageVars, colorVars>>

\* lines 115-136
ParseOptions ==
    /\ pc = "options"
    /\ IF ~parse_f32_ok(args.distance_threshold)
       THEN Exit(ExitStatusPanic, MsgDistance)
       ELSE /\ pc' = "create"
            /\ stderr' = IF args.debug_dump /\ output_type # Some("Svg")
                         THEN Append(stderr, MsgDebugDump) ELSE stderr
            /\ UNCHANGED exit_code
    /\ UNCHANGED <<args, output_type, palette, output_created, input_read, rendered,
                   lineVars, pageVars, colorVars>>

\* lines 138-143; File::create succeeds or fails
CreateOutput ==
    /\ pc = "create"
    /\ IF args.output = NoneOpt
       THEN pc' = "input" /\ UNCHANGED <<exit_code, stderr, output_created>>
       ELSE \E ok \in BOOLEAN :
               IF ok
               THEN /\ output_created' = TRUE
                    /\ pc' = "input"
                    /\ UNCHANGED <<exit_code, stderr>>
               ELSE Exit(ExitStatusFailure, "Can't create") /\ UNCHANGED output_created
    /\ UNCHANGED <<args, output_type, palette, input_read, rendered,
                   lineVars, pageVars, colorVars>>

\* lines 145-155; the text for a directory goes to stdout, which is not kept
OpenInput ==
    /\ pc = "input"
    /\ IF args.file = NoneOpt
       THEN pc' = "process" /\ UNCHANGED <<exit_code, stderr>>
       ELSE \E kind \in {"missing", "dir", "unreadable", "file"} :
               CASE kind = "missing"    -> Exit(ExitStatusFailure, "Can't access input file")
                 [] kind = "dir"        -> Exit(ExitStatusFailure, "")
                 [] kind = "unreadable" -> Exit(ExitStatusFailure, "Can't open input file")
                 [] kind = "file"       -> pc' = "process" /\ UNCHANGED <<exit_code, stderr>>
    /\ UNCHANGED <<args, output_type, palette, output_created, input_read, rendered,
                   lineVars, pageVars, colorVars>>

\* lines 146/156, 161-163 and 166-194
ProcessSingleFile ==
    /\ pc = "process"
    /\ input_read' = TRUE
    /\ \E res \in {"parse_error", "no_pages", "render_error", "ok"} :
          CASE res = "parse_error" ->
                  Exit(ExitStatusFailure, "Failed to parse lines data") /\ UNCHANGED rendered
            [] res # "parse_error" /\ output_type = Some("Pdf") /\ args.output = NoneOpt ->
                  Exit(ExitStatusFailure, "Output file needed for PDF output")
                  /\ UNCHANGED rendered
            [] res = "no_pages" /\ output_type = Some("Svg") ->
                  Exit(ExitStatusPanic, "index out of bounds") /\ UNCHANGED rendered
            [] res = "render_error" /\ ~(output_type = Some("Pdf") /\ args.output = NoneOpt) ->
                  Exit(ExitStatusFailure, "failed to write") /\ UNCHANGED rendered
            [] OTHER ->
                  /\ rendered' = TRUE
                  /\ pc' = "done"
                  /\ exit_code' = Some(ExitStatusSuccess)
                  /\ stderr' = Append(stderr, "done.")
    /\ UNCHANGED <<args, output_type, palette, output_created,
                   lineVars, pageVars, colorVars>>

NextMain ==
    \/ DetermineOutputType \/ ParseColors \/ ParseOptions
    \/ CreateOutput \/ OpenInput \/ ProcessSingleFile

SpecMain == InitMain /\ [][NextMain]_vars

(***************************************************************************)
(* Claims checked under SpecMain                                           *)
(***************************************************************************)
\* what each --output value of the model names, read off its spelling
TypeNamedByOutput(o) ==
    CASE o = NoneOpt                                  -> "Svg"
      [] o = Some(<<"o", ".", "s", "v", "g">>)        -> "Svg"
      [] o = Some(<<"o", ".", "S", "V", "G">>)        -> "Svg"
      [] o = Some(<<"o", ".", "p", "d", "f">>)        -> "Pdf"
      [] o = Some(<<"o", ".", "P", "d", "f">>)        -> "Pdf"
      [] o = Some(<<"o">>)                            -> "Svg"
      [] o = Some(<<"o", ".", "t", "x", "t">>)        -> "unsupported"
      [] o = Some(<<".", "s", "v", "g">>)             -> "Svg"
      [] o = Some(<<"o", ".">>)                       -> "unsupported"
      [] o = Some(<<"a", ".", "p", "d", "f", "/", "o">>) -> "Svg"
      [] o = Some(<<"o", ".", "p", "d", "f", ".", "s", "v", "g">>) -> "Svg"

TypeNamedByTo(t) ==
    CASE t = Some(<<"s", "v", "g">>) -> "Svg"
      [] t = Some(<<"p", "d", "f">>) -> "Pdf"

RejectedAtOutputType ==
    /\ pc = "exit"
    /\ exit_code = Some(1)
    /\ stderr = << MsgUnsupported >>

\* C8: the output type is the value of --to when given, whatever the output
\* file's extension; otherwise the type the extension of the --output file
\* names, compared case-insensitively; otherwise SVG when there is no --output
\* or the file name has no extension.  Without --to and with an extension
\* that is neither svg nor pdf the program exits with status 1, before the
\* output file is created and before any input is read.
C8_OutputType ==
    pc # "start" =>
        /\ args.to # NoneOpt =>
              /\ output_type = Some(TypeNamedByTo(args.to))
              /\ ~RejectedAtOutputType
        /\ (args.to = NoneOpt /\ TypeNamedByOutput(args.output) # "unsupported") =>
              /\ output_type = Some(TypeNamedByOutput(args.output))
              /\ ~RejectedAtOutputType
        /\ (args.to = NoneOpt /\ TypeNamedByOutput(args.output) = "unsupported") =>
              /\ RejectedAtOutputType
              /\ output_type = NoneOpt
              /\ ~output_created /\ ~input_read /\ ~rendered

C8_Witness ==
    /\ pc = "done"
    /\ args.to = Some(<<"s", "v", "g">>)
    /\ args.output = Some(<<"o", ".", "P", "d", "f">>)
    /\ output_type = Some("Svg")
    /\ output_created /\ input_read

Contains(log, msg) == \E k \in 1..Len(log) : log[k] = msg

\* C10: when --colors is omitted (its value is the default, the empty string),
\* palette parsing does not end the program with the 'Expected 9 colors per
\* layer' error: once the palette has been parsed control is past it, on the
\* way to creating the output and parsing the input.
C10_DefaultColorsAccepted ==
    (args.colors = <<>> /\ pc \notin {"start", "colors"} /\ ~RejectedAtOutputType) =>
        /\ ~Contains(stderr, MsgNineColors)
        /\ pc \in {"options", "create", "input", "process", "done", "exit"}
        /\ palette # NoneOpt

====
